---- MODULE Spec2Model ----
(***************************************************************************)
(* Model of the panini2 scheduler: Interval arithmetic (interval.rs), the  *)
(* PlanSet with overriding insert and the interval allocator               *)
(* (allocators.rs), the heuristics (heuristics.rs) and the scheduler       *)
(* driver (scheduler.rs).                                                  *)
(*                                                                         *)
(* Units.  Instants are whole seconds (jiff Timestamps; every span the     *)
(* allocator builds is a whole number of seconds).  Hour quantities, which *)
(* the program keeps as f32 (Task::volume, Interval::hours), are counted   *)
(* in work units of f32::EPSILON hours: a second is VolRes units, an hour   *)
(* is 3600 * VolRes units and `hours * 3600.0` is units / VolRes.          *)
(* Arithmetic on them is exact.                                            *)
(***************************************************************************)
EXTENDS Integers, Sequences, FiniteSets, TLC

VARIABLES
    plans,          \* Plans / TaskAllocatorWithPlans::plans : BTreeMap<Interval, String>
    granularity,    \* TaskAllocatorWithPlans::granularity (seconds)
    tasks,          \* Scheduler::tasks : Vec<Task>, indexed from 0
    interval,       \* Scheduler::interval, the scheduling window
    heuristics,     \* Scheduler::heuristics, the registered heuristics
    current_time,   \* Scheduler::current_time, the cursor
    inner,          \* Scheduler::inner : Vec<Vec<Interval>>, committed intervals per task
    pc,             \* position of the caller
    ret,            \* value returned by the most recent call
    call,           \* the most recent call: its name, arguments and the state it saw
    calls           \* number of calls made so far

vars == <<plans, granularity, tasks, interval, heuristics, current_time, inner, pc, ret, call,
          calls>>

----------------------------------------------------------------------------
(* Bounds *)

\* instants range over 0..MaxTime
MaxTime == 3
\* longest sequence of insert_with_overriding calls
MaxInserts == 3
\* most entries of a PlanSet handed to the allocator
MaxPlans == 2
\* granularities range over 1..MaxGranularity seconds
MaxGranularity == 2
\* task volumes range over 0..MaxVolume half seconds of work
MaxVolume == 5
\* work units per second: one unit is f32::EPSILON hours, 1.1920929e-7 h =
\* 4.2915e-4 s, so a second is 2330 units (to within 0.01%)
VolRes == 2330
\* half a second of work, the step of the task volumes
VolumeStep == VolRes \div 2
\* the saturating `as i32` cast of allocate
I32Max == 2147483647

Times == 0..MaxTime
Descriptions == {"sleep", "call"}

Max(a, b) == IF a >= b THEN a ELSE b

----------------------------------------------------------------------------
(* interval.rs *)

\* Interval::new
Interval(s, e) == [start |-> s, end |-> e]

\* Interval::from_span
from_span(s, span) == [start |-> s, end |-> s + span]

\* Interval::move_to: translate preserving the length
move_to(i, s) == [start |-> s, end |-> i.end + (s - i.start)]

\* Interval::span, in seconds
span(i) == i.end - i.start

\* Interval::hours, in work units
hours(i) == span(i) * VolRes

\* set_span with the start forgotten: the span is taken as the end itself
set_span_FromZero(i, sp) == [start |-> i.start, end |-> sp]

\* Interval::set_span
set_span(i, sp) == [start |-> i.start, end |-> i.start + sp]

\* Interval::intercepts: the open overlap test
intercepts(a, b) == a.start < b.end /\ b.start < a.end

\* Interval::contains (section 3 of the specification: containment)
contains(a, b) == a.start <= b.start /\ b.end <= a.end

\* Interval::partially_intercepts (section 4.1: overlap on exactly one side)
partially_intercepts(a, b) == intercepts(a, b) /\ ~contains(a, b) /\ ~contains(b, a)

\* Ord for Interval, the BTreeMap key order: by start, then by end
IntervalLess(a, b) == a.start < b.start \/ (a.start = b.start /\ a.end < b.end)

\* the well-formed intervals over the instants of the model (start <= end)
Intervals == {Interval(p[1], p[2]) : p \in {q \in Times \X Times : q[1] <= q[2]}}

----------------------------------------------------------------------------
(* BTreeMap<Interval, String> *)

EmptyMap == [k \in {} |-> ""]

\* BTreeMap::insert: an existing key keeps its place and takes the new value
MapInsert(m, k, v) == [x \in (DOMAIN m) \cup {k} |-> IF x = k THEN v ELSE m[x]]

\* BTreeMap::remove
MapRemove(m, k) == [x \in (DOMAIN m) \ {k} |-> m[x]]

RECURSIVE SortedKeys(_)
\* BTreeMap::keys / iter: the keys in ascending order
SortedKeys(S) ==
    IF S = {} THEN << >>
    ELSE LET k == CHOOSE x \in S : \A y \in S : y = x \/ IntervalLess(x, y)
         IN  <<k>> \o SortedKeys(S \ {k})

----------------------------------------------------------------------------
(* allocators.rs: Plans::insert_with_overriding *)

RECURSIVE RemoveAll(_, _)
\* lines 72-74: remove every collected key
RemoveAll(m, ks) ==
    IF ks = << >> THEN m ELSE RemoveAll(MapRemove(m, Head(ks)), Tail(ks))

\* the split without its second remainder
SplitOne_NoTail(m, k, v, i) ==
    LET m1 == MapRemove(m, k)
    IN  IF k.start # i.start THEN MapInsert(m1, Interval(k.start, i.start), v) ELSE m1

\* the split without its guards: an empty remainder is inserted too
SplitOne_Unguarded(m, k, v, i) ==
    LET m1 == MapRemove(m, k)
        m2 == MapInsert(m1, Interval(k.start, i.start), v)
    IN  MapInsert(m2, Interval(i.end, k.end), v)

\* lines 83-89: one entry that contains the new interval is split in two
SplitOne(m, k, v, i) ==
    LET m1 == MapRemove(m, k)
        m2 == IF k.start # i.start THEN MapInsert(m1, Interval(k.start, i.start), v) ELSE m1
        m3 == IF k.end # i.end THEN MapInsert(m2, Interval(i.end, k.end), v) ELSE m2
    IN  m3

\* the truncation with the original entry left in the map
TruncateOne_KeepsOriginal(m, k, v, i) ==
    LET m2 == IF k.start < i.start THEN MapInsert(m, Interval(k.start, i.start), v) ELSE m
        m3 == IF k.end > i.end THEN MapInsert(m2, Interval(i.end, k.end), v) ELSE m2
    IN  m3

\* lines 99-105: one partially overlapping entry is truncated
TruncateOne(m, k, v, i) ==
    LET m1 == MapRemove(m, k)
        m2 == IF k.start < i.start THEN MapInsert(m1, Interval(k.start, i.start), v) ELSE m1
        m3 == IF k.end > i.end THEN MapInsert(m2, Interval(i.end, k.end), v) ELSE m2
    IN  m3

RECURSIVE SplitAll(_, _, _, _)
\* lines 82-90, over the (key, value) pairs collected from `src`
SplitAll(m, ks, src, i) ==
    IF ks = << >> THEN m
    ELSE SplitAll(SplitOne(m, Head(ks), src[Head(ks)], i), Tail(ks), src, i)

RECURSIVE TruncateAll(_, _, _, _)
\* lines 98-106, over the (key, value) pairs collected from `src`
TruncateAll(m, ks, src, i) ==
    IF ks = << >> THEN m
    ELSE TruncateAll(TruncateOne(m, Head(ks), src[Head(ks)], i), Tail(ks), src, i)

\* Plans::insert_with_overriding(interval, description); each .filter(..).collect()
\* keeps the map's key order
insert_with_overriding(m, i, d) ==
    LET contained_intervals == SortedKeys({k \in DOMAIN m : contains(i, k)})
        m1 == RemoveAll(m, contained_intervals)
        is_contained_in_intervals == SortedKeys({k \in DOMAIN m1 : contains(k, i)})
        m2 == SplitAll(m1, is_contained_in_intervals, m1, i)
        partially_intercepted_intervals ==
            SortedKeys({k \in DOMAIN m2 : partially_intercepts(i, k)})
        m3 == TruncateAll(m2, partially_intercepted_intervals, m2, i)
    IN  MapInsert(m3, i, d)

\* no two entries of a plan map intersect
NonIntersecting(m) ==
    \A a \in DOMAIN m : \A b \in DOMAIN m : a # b => ~intercepts(a, b)

----------------------------------------------------------------------------
(* scheduler.rs: committed hours *)

RECURSIVE SumHours(_)
\* .iter().map(|interval| interval.hours()).sum()
SumHours(seq) == IF seq = << >> THEN 0 ELSE hours(Head(seq)) + SumHours(Tail(seq))

\* Scheduler::get_total_task_hours; an index outside `inner` counts 0.0
get_total_task_hours(task_idx) ==
    IF task_idx \in DOMAIN inner THEN SumHours(inner[task_idx]) ELSE 0

----------------------------------------------------------------------------
(* allocators.rs: TaskAllocatorWithPlans::allocate *)

\* the cast rounding up instead of truncating
TruncToI32_RoundUp(num, den) == IF num >= 0 THEN (num + den - 1) \div den ELSE -((-num) \div den)

\* `as i32` on an f32: truncation toward zero, saturating
TruncToI32(num, den) ==
    LET q == IF num >= 0 THEN num \div den ELSE -((-num) \div den)
    IN  IF q > I32Max THEN I32Max ELSE IF q < -I32Max - 1 THEN -I32Max - 1 ELSE q

\* the candidate moved to the start of the plan entry instead of its end
AvoidPlan_MoveToStart(allocated_interval, plan_interval) ==
    IF ~intercepts(allocated_interval, plan_interval) THEN allocated_interval
    ELSE IF allocated_interval.start >= plan_interval.start
         THEN move_to(allocated_interval, plan_interval.start)
         ELSE [allocated_interval EXCEPT !.end = plan_interval.start]

\* lines 48-54: one plan entry against the candidate
AvoidPlan(allocated_interval, plan_interval) ==
    IF ~intercepts(allocated_interval, plan_interval) THEN allocated_interval
    ELSE IF allocated_interval.start >= plan_interval.start
         THEN move_to(allocated_interval, plan_interval.end)
         ELSE [allocated_interval EXCEPT !.end = plan_interval.start]

RECURSIVE AvoidPlans(_, _)
\* lines 47-55: the single pass over the plan entries in key order
AvoidPlans(allocated_interval, keys) ==
    IF keys = << >> THEN allocated_interval
    ELSE AvoidPlans(AvoidPlan(allocated_interval, Head(keys)), Tail(keys))

\* the candidate never shortened to the remaining work
ShrinkToWork_Never(allocated_interval, work_hours, work_span) == allocated_interval

\* lines 34-41: the candidate is shortened to the remaining work
ShrinkToWork(allocated_interval, work_hours, work_span) ==
    IF work_hours <= granularity * VolRes
    THEN set_span(allocated_interval, work_span)
    ELSE allocated_interval

\* lines 43-45: the candidate is ended at the window's end
ClampToWindow(allocated_interval, work_span) ==
    IF current_time + work_span >= interval.end
    THEN [allocated_interval EXCEPT !.end = interval.end]
    ELSE allocated_interval

\* allocate with the candidate taken from the window's start, not from the cursor
allocate_FromWindowStart(task_idx) ==
    LET a0 == Interval(interval.start, interval.start + granularity)
        work_hours == tasks[task_idx].volume - get_total_task_hours(task_idx)
        work_span == TruncToI32(work_hours, VolRes)
        a1 == ShrinkToWork(a0, work_hours, work_span)
        a2 == ClampToWindow(a1, work_span)
    IN  AvoidPlans(a2, SortedKeys(DOMAIN plans))

\* TaskAllocatorWithPlans::allocate(scheduler, task_idx)
allocate(task_idx) ==
    LET a0 == Interval(current_time, current_time + granularity)
        work_hours == tasks[task_idx].volume - get_total_task_hours(task_idx)
        work_span == TruncToI32(work_hours, VolRes)
        a1 == ShrinkToWork(a0, work_hours, work_span)
        a2 == ClampToWindow(a1, work_span)
    IN  AvoidPlans(a2, SortedKeys(DOMAIN plans))

----------------------------------------------------------------------------
(* heuristics.rs.  A score is a fraction <<numerator, denominator>> with a    *)
(* positive denominator; hours are counted in work units, so `volume` is in   *)
(* units and `deadline` in 1/units, the same positive factor for every task.  *)

RECURSIVE GCD(_, _)
\* Euclid's algorithm; the remainder is bound as a value, computed once
GCD(a, b) == IF b = 0 THEN a ELSE CHOOSE g \in {GCD(b, r) : r \in {a % b}} : TRUE

Abs(a) == IF a < 0 THEN -a ELSE a

\* numerator and denominator divided by a common divisor
RatDiv(a, g) == <<a[1] \div g, a[2] \div g>>

\* a fraction in lowest terms; the fraction is bound as a value, computed once
RatNorm(a) == CHOOSE n \in {RatDiv(v, GCD(Abs(v[1]), v[2])) : v \in {a}} : TRUE

\* the scores combined by addition
RatMul_AsSum(a, b) == <<a[1] * b[2] + b[1] * a[2], a[2] * b[2]>>

RatMul(a, b) == <<a[1] * b[1], a[2] * b[2]>>
RatAdd(a, b) ==
    CHOOSE n \in {RatNorm(<<x[1] * y[2] + y[1] * x[2], x[2] * y[2]>>) :
                     x \in {RatNorm(a)}, y \in {RatNorm(b)}} : TRUE
RatLess(a, b) ==
    \E x \in {RatNorm(a)} : \E y \in {RatNorm(b)} : x[1] * y[2] < y[1] * x[2]
RatIsZero(a) == a[1] = 0

\* f32::EPSILON hours is one work unit
Epsilon == 1

\* the dependency test without the tolerance: the remaining volume is exactly 0
dependency_ExactZero(task_idx) ==
    LET condition ==
            \A dependency_idx \in tasks[task_idx].dependencies :
                \/ tasks[dependency_idx].deadline <= current_time
                \/ tasks[dependency_idx].volume - get_total_task_hours(dependency_idx) = 0
    IN  IF condition THEN <<1, 1>> ELSE <<0, 1>>

\* the dependency test with a tolerance of one second of work
dependency_LooseTolerance(task_idx) ==
    LET condition ==
            \A dependency_idx \in tasks[task_idx].dependencies :
                \/ tasks[dependency_idx].deadline <= current_time
                \/ tasks[dependency_idx].volume - get_total_task_hours(dependency_idx)
                       <= VolRes
    IN  IF condition THEN <<1, 1>> ELSE <<0, 1>>

\* heuristics::dependency
dependency(task_idx) ==
    LET condition ==
            \A dependency_idx \in tasks[task_idx].dependencies :
                \/ tasks[dependency_idx].deadline <= current_time
                \/ tasks[dependency_idx].volume - get_total_task_hours(dependency_idx)
                       <= Epsilon
    IN  IF condition THEN <<1, 1>> ELSE <<0, 1>>

\* heuristics::priority
priority(task_idx) == <<tasks[task_idx].priority, 1>>

RECURSIVE SumPlanHours(_)
\* .map(|plan| plan.hours()).sum() over a set of plan keys
SumPlanHours(S) ==
    IF S = {} THEN 0
    ELSE LET k == CHOOSE x \in S : TRUE IN hours(k) + SumPlanHours(S \ {k})

\* the planned hours counted inside the interval only
get_planned_hours_Clipped(i) ==
    SumPlanHours({Interval(IF plan.start >= i.start THEN plan.start ELSE i.start,
                           IF plan.end <= i.end THEN plan.end ELSE i.end) :
                  plan \in {k \in DOMAIN plans : intercepts(k, i)}})

\* Scheduler::get_planned_hours: the full hours of every intersecting plan entry
get_planned_hours(i) == SumPlanHours({plan \in DOMAIN plans : intercepts(plan, i)})

\* the deadline score from the hours to the deadline, planned hours not subtracted
deadline_NoPlans(task_idx) ==
    LET total == tasks[task_idx].deadline - current_time
        working_hours == total * VolRes
    IN  IF working_hours <= 0 THEN <<0, 1>> ELSE <<1, working_hours>>

\* heuristics::deadline
deadline(task_idx) ==
    LET total == tasks[task_idx].deadline - current_time
        total_hours == total * VolRes
        planned_hours == get_planned_hours(Interval(current_time, current_time + total))
        working_hours == total_hours - planned_hours
    IN  IF working_hours <= 0 THEN <<0, 1>> ELSE <<1, working_hours>>

\* the whole volume of the task, committed hours not subtracted
volume_Static(task_idx) == <<tasks[task_idx].volume, 1>>

\* heuristics::volume
volume(task_idx) == <<tasks[task_idx].volume - get_total_task_hours(task_idx), 1>>

RECURSIVE MaxEnd(_)
\* the largest end of a non-empty list of intervals
MaxEnd(seq) ==
    IF Len(seq) = 1 THEN seq[1].end ELSE Max(seq[1].end, MaxEnd(Tail(seq)))

\* get_last_task keeping the first of the tasks with the largest key
get_last_task_FirstOnTie ==
    LET committed == {t \in DOMAIN inner : inner[t] # << >>}
    IN  IF committed = {} THEN [some |-> FALSE]
        ELSE [some |-> TRUE,
              task_idx |-> CHOOSE t \in committed : \A u \in committed :
                              \/ MaxEnd(inner[u]) < MaxEnd(inner[t])
                              \/ MaxEnd(inner[u]) = MaxEnd(inner[t]) /\ t <= u]

\* Scheduler::get_last_task: max_by_key over the latest end of each task's
\* committed list (None for an empty list, below every Some) keeps the last
\* of the tasks with the largest key; None when that list is empty
get_last_task ==
    LET committed == {t \in DOMAIN inner : inner[t] # << >>}
    IN  IF committed = {} THEN [some |-> FALSE]
        ELSE [some |-> TRUE,
              task_idx |-> CHOOSE t \in committed : \A u \in committed :
                              \/ MaxEnd(inner[u]) < MaxEnd(inner[t])
                              \/ MaxEnd(inner[u]) = MaxEnd(inner[t]) /\ u <= t]

\* heuristics::locality
locality(task_idx) ==
    LET previous_task == get_last_task
    IN  IF ~previous_task.some THEN <<1, 1>>
        ELSE IF previous_task.task_idx = task_idx THEN <<2, 1>> ELSE <<1, 1>>

\* a registered heuristic applied to a task
Apply(heuristic, task_idx) ==
    CASE heuristic = "dependency" -> dependency(task_idx)
      [] heuristic = "priority" -> priority(task_idx)
      [] heuristic = "deadline" -> deadline(task_idx)
      [] heuristic = "volume" -> volume(task_idx)
      [] heuristic = "locality" -> locality(task_idx)

----------------------------------------------------------------------------
(* scheduler.rs: Scheduler::next and Scheduler::schedule_task *)

RECURSIVE ScoreFrom(_, _)
\* lines 170-176: the product of the registered heuristics from the k-th on
ScoreFrom(task_idx, k) ==
    IF k > Len(heuristics) THEN <<1, 1>>
    ELSE RatMul(Apply(heuristics[k], task_idx), ScoreFrom(task_idx, k + 1))

\* heuristic_scores[task_idx]
heuristic_scores(task_idx) == ScoreFrom(task_idx, 1)

NumTasks == Cardinality(DOMAIN tasks)

RECURSIVE SumScoresFrom(_)
\* line 178: heuristic_scores.iter().sum()
SumScoresFrom(task_idx) ==
    IF task_idx >= NumTasks THEN <<0, 1>>
    ELSE RatAdd(heuristic_scores(task_idx), SumScoresFrom(task_idx + 1))

RECURSIVE MinByFrom_LastOnTie(_, _)
\* the scan taking the later of two equal scores
MinByFrom_LastOnTie(best, task_idx) ==
    IF task_idx >= NumTasks THEN best
    ELSE MinByFrom_LastOnTie(IF RatLess(heuristic_scores(task_idx), heuristic_scores(best))
                             THEN best ELSE task_idx,
                             task_idx + 1)

RECURSIVE MinByFrom(_, _)
\* lines 182-187: min_by under the reversed comparison keeps the element it
\* holds unless the next one compares strictly greater
MinByFrom(best, task_idx) ==
    IF task_idx >= NumTasks THEN best
    ELSE MinByFrom(IF RatLess(heuristic_scores(best), heuristic_scores(task_idx))
                   THEN task_idx ELSE best,
                   task_idx + 1)

\* the index next() selects
SelectedTask == MinByFrom(0, 1)

\* the window test with > in place of >=
NextIsNone_Strict ==
    \/ current_time > interval.end
    \/ RatIsZero(SumScoresFrom(0))

\* next() returns None (lines 166-168 and 178-180): past the window's end it
\* returns before any heuristic is evaluated
NextIsNone ==
    IF current_time >= interval.end THEN TRUE ELSE RatIsZero(SumScoresFrom(0))

\* max_by_key(|i| i.end): the last of the elements with the largest end
MaxByEnd(seq) == CHOOSE k \in 1..Len(seq) :
    /\ seq[k].end = MaxEnd(seq)
    /\ \A j \in (k+1)..Len(seq) : seq[j].end # MaxEnd(seq)

\* lines 139-144: the first task whose latest interval ends at interval.start
EndsAt(task_idx, i) ==
    /\ inner[task_idx] # << >>
    /\ inner[task_idx][MaxByEnd(inner[task_idx])].end = i.start

\* schedule_task extending the latest interval of whichever task it found
schedule_task_ExtendsFound(task_idx, i) ==
    LET found == {t \in DOMAIN inner : EndsAt(t, i)}
        last_task == CHOOSE t \in found : \A u \in found : t <= u
    IN  IF found = {}
        THEN [inner EXCEPT ![task_idx] = Append(@, i)]
        ELSE [inner EXCEPT ![last_task][MaxByEnd(inner[last_task])].end = i.end]

\* Scheduler::schedule_task(task_idx, interval): the new value of `inner`
schedule_task(task_idx, i) ==
    LET found == {t \in DOMAIN inner : EndsAt(t, i)}
        last_task == CHOOSE t \in found : \A u \in found : t <= u
    IN  IF found = {} \/ last_task # task_idx
        THEN [inner EXCEPT ![task_idx] = Append(@, i)]
        ELSE [inner EXCEPT ![task_idx][MaxByEnd(inner[task_idx])].end = i.end]

----------------------------------------------------------------------------
(* Building a PlanSet: any sequence of overriding inserts into an empty set *)

NoCall == [op |-> "none"]
\* nothing returned yet, and Option::None
NoValue == [value |-> "none"]
None == [value |-> "None"]
NoTasks == [t \in {} |-> 0]

InitPlans ==
    /\ plans = EmptyMap
    /\ granularity = 1
    /\ tasks = NoTasks
    /\ interval = Interval(0, MaxTime)
    /\ heuristics = {}
    /\ current_time = 0
    /\ inner = NoTasks
    /\ pc = "build"
    /\ ret = NoValue
    /\ call = NoCall
    /\ calls = 0

InsertWithOverriding ==
    /\ pc = "build"
    /\ calls < MaxInserts
    /\ calls' = calls + 1
    /\ \E i \in Intervals : \E d \in Descriptions :
          /\ plans' = insert_with_overriding(plans, i, d)
          /\ call' = [op |-> "insert_with_overriding", interval |-> i,
                      description |-> d, before |-> plans,
                      prev |-> IF call.op = "none" THEN << >>
                               ELSE <<call.interval, call.description>>]
    /\ UNCHANGED <<granularity, tasks, interval, heuristics, current_time, inner, pc, ret>>

NextPlans == InsertWithOverriding

SpecPlans == InitPlans /\ [][NextPlans]_vars

----------------------------------------------------------------------------
(* One allocate() call on any scheduler state: a pairwise non-intersecting    *)
(* PlanSet, a cursor inside the window, a task with any remaining volume.     *)

\* Task
Task(dl, pr, vol, deps) ==
    [deadline |-> dl, priority |-> pr, volume |-> vol, dependencies |-> deps]

\* the pairwise non-intersecting plan maps of at most MaxPlans entries
PlanSets ==
    {[k \in S |-> "sleep"] :
        S \in {T \in SUBSET Intervals :
                  /\ Cardinality(T) <= MaxPlans
                  /\ \A a \in T : \A b \in T : a # b => ~intercepts(a, b)}}

\* the scheduling windows: they start at 0 and end at or before the last instant
Windows == {Interval(0, e) : e \in {MaxTime - 1, MaxTime}}

InitAlloc ==
    /\ plans \in PlanSets
    /\ granularity \in 1..MaxGranularity
    /\ interval \in Windows
    /\ \E v \in 0..MaxVolume : tasks = [t \in {0} |-> Task(MaxTime, 1, v * VolumeStep, {})]
    /\ inner \in {[t \in {0} |-> << >>], [t \in {0} |-> <<Interval(0, 1)>>]}
    /\ heuristics = {}
    /\ current_time \in interval.start..(interval.end - 1)
    /\ pc = "ready"
    /\ ret = NoValue
    /\ call = NoCall
    /\ calls = 0

Allocate ==
    /\ pc = "ready"
    /\ \E task_idx \in DOMAIN tasks :
          /\ ret' = allocate(task_idx)
          /\ call' = [op |-> "allocate", task_idx |-> task_idx]
    /\ pc' = "allocated"
    /\ calls' = calls + 1
    /\ UNCHANGED <<plans, granularity, tasks, interval, heuristics, current_time, inner>>

NextAlloc == Allocate

SpecAlloc == InitAlloc /\ [][NextAlloc]_vars

----------------------------------------------------------------------------
(* The driver: Scheduler::new, then next() and schedule_task() in turn, as   *)
(* Scheduler::schedule and the test loop of tests.rs run them.              *)

\* task indices
TaskIds == {0, 1}
\* priorities of the test fixture: 0.0, 1.0 and 2.0
Priorities == {0, 1, 2}
\* dependency lists: none, or one task waits for the other
Dependencies == {[t \in TaskIds |-> {}],
                 [t \in TaskIds |-> IF t = 1 THEN {0} ELSE {}],
                 [t \in TaskIds |-> IF t = 0 THEN {1} ELSE {}]}
\* registered heuristics: the four of the specification (the three of tests.rs
\* score as these four do when every priority is 1.0)
HeuristicLists == {<<"dependency", "volume", "deadline", "priority">>}
\* most committed intervals kept per task
MaxCommits == 3
\* most plan entries of a driver run
MaxDriverPlans == 1
\* task volumes of a driver run range over 0..MaxDriverVolume half seconds of work
MaxDriverVolume == 4

\* the plan maps of a driver run: non-empty entries, pairwise non-intersecting
DriverPlanSets ==
    {m \in PlanSets : /\ Cardinality(DOMAIN m) <= MaxDriverPlans
                      /\ \A k \in DOMAIN m : k.start < k.end}

Init ==
    /\ plans \in DriverPlanSets
    /\ granularity \in 1..MaxGranularity
    /\ interval = Interval(0, MaxTime)
    /\ \E vol \in [TaskIds -> 0..MaxDriverVolume] :
       \E dl \in [TaskIds -> {MaxTime - 1, MaxTime + 1}] :
       \E pr \in [TaskIds -> Priorities] :
       \E deps \in Dependencies :
          tasks = [t \in TaskIds |-> Task(dl[t], pr[t], vol[t] * VolumeStep, deps[t])]
    /\ heuristics \in HeuristicLists
    \* Scheduler::new
    /\ inner = [t \in DOMAIN tasks |-> << >>]
    /\ current_time = interval.start
    /\ pc = "idle"
    /\ ret = NoValue
    /\ call = NoCall
    /\ calls = 0

\* next() returns None
NextNone ==
    /\ pc = "idle"
    /\ NextIsNone
    /\ ret' = None
    /\ pc' = "done"
    /\ call' = [op |-> "next", current_time |-> current_time]
    /\ UNCHANGED <<plans, granularity, tasks, interval, heuristics, current_time, inner,
                   calls>>

\* next() returns Some((idx, interval)) and moves the cursor
NextSome ==
    /\ pc = "idle"
    /\ ~NextIsNone
    /\ Len(inner[SelectedTask]) < MaxCommits
    /\ LET idx == SelectedTask
           i == allocate(idx)
       IN  /\ current_time' = i.end
           /\ ret' = [task_idx |-> idx, interval |-> i]
    /\ pc' = "decided"
    /\ call' = [op |-> "next", current_time |-> current_time]
    /\ UNCHANGED <<plans, granularity, tasks, interval, heuristics, inner, calls>>

\* schedule_task(task_idx, task_interval) with the decision next() returned
ScheduleTask ==
    /\ pc = "decided"
    /\ inner' = schedule_task(ret.task_idx, ret.interval)
    /\ pc' = "idle"
    /\ call' = [op |-> "schedule_task", current_time |-> current_time]
    /\ UNCHANGED <<plans, granularity, tasks, interval, heuristics, current_time, ret,
                   calls>>

Next == NextNone \/ NextSome \/ ScheduleTask

Spec == Init /\ [][Next]_vars

\* Scheduler::schedule, the drain loop: it keeps calling next() and
\* schedule_task() while it can.  Runs without plans or dependencies, every
\* priority 1.0.
InitDrain ==
    /\ Init
    /\ plans = EmptyMap
    /\ \A t \in DOMAIN tasks : tasks[t].dependencies = {} /\ tasks[t].priority = 1

FairSpec == InitDrain /\ [][Next]_vars /\ WF_vars(Next)

----------------------------------------------------------------------------
(* Recurring plan expansion: TryFrom<(&Interval, Vec<(String, HashMap)>)> for *)
(* Plans.  A day is two instants long; a clock time is "00:00" or "12:00", a  *)
(* time-range string is the sequence of the trimmed tokens its split on '-'   *)
(* gives.  A rule carries whether its recurrence syntax parses, the days its  *)
(* cron pattern fires on (midnight of each), and its day_plans entries.       *)

\* longest rule list of a configuration
MaxRules == 2

Days == {0, 1}
ClockTimes == <<"00:00", "12:00">>
DaySpan == Len(ClockTimes)

\* midnight of a day
DayStart(day) == day * DaySpan

\* strptime("%F %R") of a date and a clock token: the instant, or -1 for Err
strptime(day, token) ==
    IF \E k \in DOMAIN ClockTimes : ClockTimes[k] = token
    THEN DayStart(day) + (CHOOSE k \in DOMAIN ClockTimes : ClockTimes[k] = token) - 1
    ELSE -1

\* end.starts_with("24")
StartsWith24(token) == token \in {"24:00", "24:30"}

\* the time-range strings of the configurations: three that parse (the last
\* one ends before it starts), one without a dash, one with an unparsable
\* start, one with an unparsable end
TimeRanges ==
    {<<"00:00", "12:00">>, <<"12:00", "24:00">>, <<"12:00", "00:00">>,
     <<"12:00">>, <<"noon", "24:00">>, <<"00:00", "noon">>}

\* a recurrence rule with its single day_plans entry
Rule(syntax_ok, days, time, description) ==
    [syntax_ok |-> syntax_ok, days |-> days,
     day_plans |-> <<[time |-> time, description |-> description]>>]

\* the day_plans entries of the configurations: each time range as "sleep",
\* and the whole day as "call"
DayPlans ==
    {<<time, "sleep">> : time \in TimeRanges} \cup {<<<<"00:00", "24:00">>, "call">>}

Rules ==
    {Rule(TRUE, days, p[1], p[2]) : days \in SUBSET Days, p \in DayPlans}
        \cup {Rule(FALSE, {}, <<"00:00", "12:00">>, "sleep")}

RuleLists == UNION {[1..n -> Rules] : n \in 0..MaxRules}

RECURSIVE SortedDays(_)
\* the days of a set in ascending order
SortedDays(S) ==
    IF S = {} THEN << >>
    ELSE LET day == CHOOSE x \in S : \A y \in S : x <= y
         IN  <<day>> \o SortedDays(S \ {day})

\* lines 124-133: the midnights the pattern fires on, from the start of the
\* window's first day, while they are before the window's end
MatchedDays(window, rule) ==
    SortedDays({day \in rule.days :
                   /\ DayStart(day) >= DayStart(window.start \div DaySpan)
                   /\ DayStart(day) < window.end})

Err == [ok |-> FALSE]
Ok(m) == [ok |-> TRUE, plans |-> m]

\* lines 135-167: one time range on one matched day
ExpandDay(m, day, time, description) ==
    IF Len(time) # 2 THEN Err
    ELSE LET start == strptime(day, time[1])
             end == IF StartsWith24(time[2]) THEN DayStart(day + 1)
                    ELSE strptime(day, time[2])
         IN  IF start = -1 \/ end = -1 THEN Err
             ELSE Ok(insert_with_overriding(m, Interval(start, end), description))

RECURSIVE ExpandDays(_, _, _, _)
\* lines 124-168: one time range on every matched day
ExpandDays(m, days, time, description) ==
    IF days = << >> THEN Ok(m)
    ELSE LET r == ExpandDay(m, Head(days), time, description)
         IN  IF r.ok THEN ExpandDays(r.plans, Tail(days), time, description) ELSE Err

RECURSIVE ExpandDayPlans(_, _, _)
\* lines 123-169: every day_plans entry of one rule
ExpandDayPlans(m, days, day_plans) ==
    IF day_plans = << >> THEN Ok(m)
    ELSE LET r == ExpandDays(m, days, Head(day_plans).time, Head(day_plans).description)
         IN  IF r.ok THEN ExpandDayPlans(r.plans, days, Tail(day_plans)) ELSE Err

RECURSIVE ExpandRules_LastFirst(_, _, _)
\* the rules applied from the last to the first
ExpandRules_LastFirst(m, window, value) ==
    IF value = << >> THEN Ok(m)
    ELSE LET r == ExpandRules_LastFirst(m, window, Tail(value))
         IN  IF r.ok /\ Head(value).syntax_ok
             THEN ExpandDayPlans(r.plans, MatchedDays(window, Head(value)),
                                 Head(value).day_plans)
             ELSE Err

RECURSIVE ExpandRules(_, _, _)
\* lines 119-170: the rules in order; Cron::parse fails before any day is looked at
ExpandRules(m, window, value) ==
    IF value = << >> THEN Ok(m)
    ELSE IF ~Head(value).syntax_ok THEN Err
    ELSE LET r == ExpandDayPlans(m, MatchedDays(window, Head(value)), Head(value).day_plans)
         IN  IF r.ok THEN ExpandRules(r.plans, window, Tail(value)) ELSE Err

\* Plans::try_from((interval, value))
PlansTryFrom(window, value) == ExpandRules(EmptyMap, window, value)

\* the windows: both days, the second day, noon of the first to noon of the second
ExpandWindows ==
    {Interval(DayStart(0), DayStart(2)), Interval(DayStart(1), DayStart(2)),
     Interval(DayStart(0) + 1, DayStart(1) + 1)}

InitExpand ==
    /\ plans = EmptyMap
    /\ granularity = 1
    /\ tasks = NoTasks
    /\ interval \in ExpandWindows
    /\ heuristics = << >>
    /\ current_time = interval.start
    /\ inner = NoTasks
    /\ pc = "config"
    /\ ret = NoValue
    /\ call = NoCall
    /\ calls = 0

\* Plans::try_from on a rule list: Ok with the PlanSet, or Err and no PlanSet
TryFromPlans ==
    /\ pc = "config"
    /\ \E value \in RuleLists :
          LET r == PlansTryFrom(interval, value)
          IN  /\ ret' = [value |-> IF r.ok THEN "Ok" ELSE "Err"]
              /\ plans' = IF r.ok THEN r.plans ELSE plans
              /\ call' = [op |-> "try_from", value |-> value]
    /\ pc' = "expanded"
    /\ calls' = calls + 1
    /\ UNCHANGED <<granularity, tasks, interval, heuristics, current_time, inner>>

NextExpand == TryFromPlans

SpecExpand == InitExpand /\ [][NextExpand]_vars

----------------------------------------------------------------------------
(* The scheduler of tests.rs: six tasks, three plan entries, a 24 hour window *)
(* counted in seconds from 2025-03-05T00:00Z, granularity one hour.  The      *)
(* heuristics are registered in any order, the three of get_test_scheduler or *)
(* those three and priority.                                                  *)

\* seconds in an hour
Hour == 3600

\* a volume of `halves` half hours, in work units
HalfHours(halves) == halves * (Hour \div 2) * VolRes

\* the orders in which a set of heuristics can be registered
HeuristicOrders(S) ==
    {s \in [1..Cardinality(S) -> S] :
        \A j \in DOMAIN s : \A k \in DOMAIN s : j # k => s[j] # s[k]}

\* get_test_scheduler: tasks
TestTasks ==
    <<Task(12 * Hour, 1, HalfHours(4), {4}),
      Task(17 * Hour, 1, HalfHours(2), {0}),
      Task(13 * Hour, 2, HalfHours(6), {}),
      Task(18 * Hour, 1, HalfHours(6), {2}),
      Task(19 * Hour, 1, HalfHours(0), {}),
      Task(19 * Hour, 0, HalfHours(1), {})>>

\* get_test_scheduler: plans
TestPlans ==
    MapInsert(MapInsert(MapInsert(EmptyMap,
        from_span(0, 9 * Hour), ""), from_span(13 * Hour, 2 * Hour), ""),
        from_span(22 * Hour, 2 * Hour), "")

InitFixture ==
    /\ plans = TestPlans
    /\ granularity = Hour
    /\ interval = from_span(0, 24 * Hour)
    /\ tasks = [t \in 0..(Len(TestTasks) - 1) |-> TestTasks[t + 1]]
    /\ heuristics \in HeuristicOrders({"dependency", "volume", "deadline"})
                        \cup HeuristicOrders({"dependency", "volume", "deadline", "priority"})
    /\ inner = [t \in DOMAIN tasks |-> << >>]
    /\ current_time = interval.start
    /\ pc = "idle"
    /\ ret = NoValue
    /\ call = NoCall
    /\ calls = 0

SpecFixture == InitFixture /\ [][Next]_vars

----------------------------------------------------------------------------
(* The drain followed by the missed-deadline report, on tasks whose volume is *)
(* nothing, exactly the tolerance, or a second of work.                       *)

\* Scheduler::get_missed_deadlines_tasks: the indices the filter keeps
get_missed_deadlines_tasks ==
    {task_idx \in DOMAIN tasks :
        tasks[task_idx].volume - get_total_task_hours(task_idx) # 0}

InitReport ==
    /\ plans = EmptyMap
    /\ granularity = 1
    /\ interval = Interval(0, MaxTime)
    /\ \E vol \in [TaskIds -> {0, Epsilon, VolRes}] :
       \E dl \in [TaskIds -> {MaxTime - 1, MaxTime + 1}] :
       \E pr \in [TaskIds -> {0, 1}] :
          tasks = [t \in TaskIds |-> Task(dl[t], pr[t], vol[t], {})]
    /\ heuristics \in HeuristicLists
    /\ inner = [t \in DOMAIN tasks |-> << >>]
    /\ current_time = interval.start
    /\ pc = "idle"
    /\ ret = NoValue
    /\ call = NoCall
    /\ calls = 0

\* get_missed_deadlines_tasks() once schedule() has returned
Report ==
    /\ pc = "done"
    /\ pc' = "reported"
    /\ ret' = get_missed_deadlines_tasks
    /\ call' = [op |-> "get_missed_deadlines_tasks"]
    /\ UNCHANGED <<plans, granularity, tasks, interval, heuristics, current_time, inner, calls>>

NextReport == Next \/ Report

SpecReport == InitReport /\ [][NextReport]_vars

----------------------------------------------------------------------------
(* One heuristic evaluated on any scheduler state: the dependency heuristic   *)
(* on a task with 0, 1 or 2 dependencies in every state of each, the deadline *)
(* heuristic on every cursor, deadline and PlanSet.                           *)

HeuristicTaskIds == {0, 1, 2}

\* a dependency's volume and committed intervals: nothing, the tolerance,
\* just more than the tolerance or a second of work left
DependencyStates ==
    {<<v, << >>>> : v \in {0, Epsilon, Epsilon + 1, VolRes}}
        \cup {<<VolRes + v, <<Interval(0, 1)>>>> : v \in {0, Epsilon, Epsilon + 1}}

InitDependency ==
    /\ plans = EmptyMap
    /\ heuristics = <<"dependency">>
    /\ \E deps \in SUBSET {1, 2} :
       \E dl \in [{1, 2} -> {1, MaxTime}] :
       \E st \in [{1, 2} -> DependencyStates] :
          /\ tasks = [t \in HeuristicTaskIds |->
                         IF t = 0 THEN Task(MaxTime, 1, VolRes, deps)
                         ELSE Task(dl[t], 1, st[t][1], {})]
          /\ inner = [t \in HeuristicTaskIds |-> IF t = 0 THEN << >> ELSE st[t][2]]

InitDeadline ==
    /\ plans \in PlanSets
    /\ heuristics = <<"deadline">>
    /\ \E dl \in 0..(MaxTime + 1) :
          tasks = [t \in HeuristicTaskIds |->
                      Task(IF t = 0 THEN dl ELSE IF t = 1 THEN 1 ELSE MaxTime, 1, VolRes, {})]
    /\ inner = [t \in HeuristicTaskIds |-> << >>]

\* the committed lists of the locality states: nothing, one interval, two
\* intervals, or a zero-length interval at instant 1 or 2
LocalityLists ==
    {<< >>, <<Interval(0, 1)>>, <<Interval(1, 2)>>, <<Interval(0, 1), Interval(2, 3)>>,
     <<Interval(2, 3), Interval(0, 1)>>, <<Interval(1, 1)>>, <<Interval(2, 2)>>}

InitLocality ==
    /\ plans = EmptyMap
    /\ heuristics = <<"locality">>
    /\ tasks = [t \in HeuristicTaskIds |-> Task(MaxTime, 1, VolRes, {})]
    /\ inner \in [HeuristicTaskIds -> LocalityLists]

InitHeuristic ==
    /\ InitDependency \/ InitDeadline \/ InitLocality
    /\ granularity = 1
    /\ interval = Interval(0, MaxTime)
    /\ current_time \in Times
    /\ pc = "ready"
    /\ ret = NoValue
    /\ call = NoCall
    /\ calls = 0

\* heuristic(scheduler, task_idx) for a registered heuristic
Evaluate ==
    /\ pc = "ready"
    /\ \E k \in 1..Len(heuristics) : \E task_idx \in DOMAIN tasks :
          /\ ret' = Apply(heuristics[k], task_idx)
          /\ call' = [op |-> "heuristic", heuristic |-> heuristics[k], task_idx |-> task_idx]
    /\ pc' = "evaluated"
    /\ calls' = calls + 1
    /\ UNCHANGED <<plans, granularity, tasks, interval, heuristics, current_time, inner>>

NextHeuristic == Evaluate

SpecHeuristic == InitHeuristic /\ [][NextHeuristic]_vars

----------------------------------------------------------------------------
(* C1 *)

\* C1: starting from an empty PlanSet, after every insert_with_overriding call
\* of any sequence of calls (start <= end, arbitrary overlaps) no two entries
\* of the PlanSet intersect.
C1_PlansNonIntersecting == NonIntersecting(plans)

\* an insert that overlapped two earlier entries has happened: it truncated one
\* of them and removed or truncated the other
C1_Witness ==
    /\ call.op = "insert_with_overriding"
    /\ \E a \in DOMAIN call.before : \E b \in DOMAIN call.before :
          /\ a # b
          /\ intercepts(call.interval, a)
          /\ intercepts(call.interval, b)
          /\ a.start < call.interval.start
          /\ Interval(a.start, call.interval.start) \in DOMAIN plans
          /\ a \notin DOMAIN plans
          /\ b \notin DOMAIN plans

----------------------------------------------------------------------------
(* C2 - C5: the allocator *)

\* remaining hours of the task of the most recent allocate() call
Remaining(task_idx) == tasks[task_idx].volume - get_total_task_hours(task_idx)

\* C2: for every pairwise non-intersecting plan set, every cursor inside the
\* window and every task, the interval allocate() returns intersects no plan
\* entry.
C2_AllocateAvoidsPlans ==
    (pc = "allocated" /\ NonIntersecting(plans))
        => \A p \in DOMAIN plans : ~intercepts(ret, p)

\* allocate() has moved the candidate past a chain of two adjacent entries, the
\* first of which contains the cursor
C2_Witness ==
    /\ pc = "allocated"
    /\ \E p \in DOMAIN plans : \E q \in DOMAIN plans :
          /\ p.start <= current_time /\ current_time < p.end
          /\ p.end = q.start /\ q.start < q.end
          /\ ret.start = q.end
          /\ ret.end > ret.start

\* C3: for every cursor with window.start <= cursor < window.end the interval
\* allocate() returns ends at or before the window's end.
C3_AllocateInsideWindow ==
    pc = "allocated" => ret.end <= interval.end

\* C4: the interval a single allocate() call returns is never longer than the
\* granularity.
C4_AllocateAtMostGranularity ==
    pc = "allocated" => span(ret) <= granularity

\* C5: for a task with remaining hours r >= 0 the interval allocate() returns
\* is never longer than r hours.
C5_AllocateAtMostRemaining ==
    (pc = "allocated" /\ Remaining(call.task_idx) >= 0)
        => hours(ret) <= Remaining(call.task_idx)

\* allocate() has returned an interval exactly as long as a remainder that is
\* shorter than the granularity, after moving it past a plan entry
C5_Witness ==
    /\ pc = "allocated"
    /\ Remaining(call.task_idx) > 0
    /\ Remaining(call.task_idx) < granularity * VolRes
    /\ hours(ret) = Remaining(call.task_idx)
    /\ ret.start > current_time
----------------------------------------------------------------------------
(* C6 - C10: the driver *)

\* the cap on committed intervals stops the model where the program would go on
CommitCapReached ==
    /\ pc = "idle"
    /\ ~NextIsNone
    /\ Len(inner[SelectedTask]) >= MaxCommits

\* C6: in every state of a driver run (next() then schedule_task of the
\* decision, merges included) the committed hours of every task are at most
\* its volume, within the epsilon tolerance.
C6_CommittedAtMostVolume ==
    \A t \in DOMAIN tasks : get_total_task_hours(t) <= tasks[t].volume + Epsilon

\* a task is fully committed in one interval that a merge made longer than
\* the granularity
C6_Witness ==
    \E t \in DOMAIN tasks :
        /\ pc = "idle"
        /\ Len(inner[t]) = 1
        /\ span(inner[t][1]) > granularity
        /\ plans = EmptyMap
        /\ get_total_task_hours(t) = tasks[t].volume

\* C7: with granularity > 0, a non-empty window, volumes >= 0 and the
\* heuristics dependency, volume, deadline and priority registered, the drain
\* loop terminates (next() returns None after finitely many steps).
C7_DrainTerminates == <>(pc = "done" \/ CommitCapReached)

\* C8: the cursor starts at window.start and no call of next() sets it to a
\* smaller value than it had.
C8_CursorMonotone ==
    /\ current_time = interval.start
    /\ [][current_time' >= current_time]_vars

\* next() has moved the cursor twice, the second time past a plan entry
C8_Witness ==
    /\ pc = "decided"
    /\ call.current_time > interval.start
    /\ ret.interval.start > call.current_time
    /\ current_time = ret.interval.end
    /\ current_time > ret.interval.start

\* C9: whenever next() returns a decision, no task scores higher at the
\* cursor than the selected one and every task with a lower index scores
\* strictly lower.
C9_SelectsFirstMaximal ==
    [][(pc = "idle" /\ pc' = "decided") =>
          /\ \A t \in DOMAIN tasks :
                ~RatLess(heuristic_scores(ret'.task_idx), heuristic_scores(t))
          /\ \A t \in DOMAIN tasks :
                t < ret'.task_idx
                    => RatLess(heuristic_scores(t), heuristic_scores(ret'.task_idx))]_vars

\* two tasks alike in everything tie at the first call of next(), which
\* returns the lower index
C9_Witness ==
    /\ pc = "decided"
    /\ tasks[0] = tasks[1]
    /\ tasks[0].volume > 0
    /\ tasks[0].priority > 0
    /\ \A t \in DOMAIN tasks : inner[t] = << >>
    /\ ret.task_idx = 0
    /\ span(ret.interval) > 0

\* C10: next() returns None exactly when current_time >= window.end or every
\* task's score at the cursor is exactly 0, and a decision otherwise.
C10_NoneIffEndOrAllZero ==
    [][(pc = "idle" /\ pc' # "idle") =>
          ((pc' = "done") <=>
              (\/ current_time >= interval.end
               \/ \A t \in DOMAIN tasks : RatIsZero(heuristic_scores(t))))]_vars

\* next() has returned None at the window's end while a task still scores
C10_Witness ==
    /\ pc = "done"
    /\ current_time >= interval.end
    /\ \E t \in DOMAIN tasks : ~RatIsZero(heuristic_scores(t))
----------------------------------------------------------------------------
(* C11 - C12: the overriding insert *)

\* the entries of a plan map that cover the instants of [t, t + 1)
Covering(m, t) == {k \in DOMAIN m : k.start <= t /\ t < k.end}

\* the descriptions an instant is covered with
DescriptionsAt(m, t) == {m[k] : k \in Covering(m, t)}

\* C11: after insert_with_overriding(I, d) on a pairwise non-intersecting
\* PlanSet S, (I, d) is an entry, every instant inside I is covered by that
\* entry only, and every instant outside I is covered exactly when it was
\* covered in S, with the same description.
C11_InsertOverrides ==
    (call.op = "insert_with_overriding" /\ NonIntersecting(call.before)) =>
        /\ call.interval \in DOMAIN plans
        /\ plans[call.interval] = call.description
        /\ \A t \in 0..(MaxTime - 1) :
              IF call.interval.start <= t /\ t < call.interval.end
              THEN Covering(plans, t) = {call.interval}
              ELSE DescriptionsAt(plans, t) = DescriptionsAt(call.before, t)

\* an entry that covers the whole range was split around a new inner entry
C11_Witness ==
    /\ call.op = "insert_with_overriding"
    /\ call.before = MapInsert(EmptyMap, Interval(0, 3), "sleep")
    /\ call.interval = Interval(1, 2)
    /\ call.description = "call"
    /\ DOMAIN plans = {Interval(0, 1), Interval(1, 2), Interval(2, 3)}
    /\ plans[Interval(0, 1)] = "sleep"
    /\ plans[Interval(2, 3)] = "sleep"

\* C12: insert_with_overriding(I, d) made twice in a row leaves the PlanSet
\* the first of the two calls produced.
C12_InsertIdempotent ==
    (call.op = "insert_with_overriding" /\ call.prev = <<call.interval, call.description>>)
        => plans = call.before

\* the same non-empty entry was inserted twice in a row next to another entry
C12_Witness ==
    /\ call.op = "insert_with_overriding"
    /\ call.prev = <<call.interval, call.description>>
    /\ span(call.interval) > 0
    /\ Cardinality(DOMAIN plans) >= 2

----------------------------------------------------------------------------
(* C13 - C14: the heuristics *)

\* the dependencies that block a task: before their deadline with more than
\* the tolerance left
Blocking(task_idx) ==
    {d \in tasks[task_idx].dependencies :
        tasks[d].deadline > current_time /\ Remaining(d) > Epsilon}

C14_DeadlineHeuristic ==
    (call.op = "heuristic" /\ call.heuristic = "deadline") =>
        LET d == tasks[call.task_idx].deadline
            working_hours ==
                (d - current_time) * VolRes
                    - SumPlanHours({k \in DOMAIN plans : k.start < d /\ current_time < k.end})
        IN  /\ ret = IF working_hours <= 0 THEN <<0, 1>> ELSE <<1, working_hours>>
            /\ current_time >= d => ret = <<0, 1>>

\* a plan entry that began before the cursor is counted in full and time is left
C14_Witness ==
    /\ call.op = "heuristic"
    /\ call.heuristic = "deadline"
    /\ \E k \in DOMAIN plans :
          /\ k.start < current_time
          /\ current_time < k.end
          /\ k.end < tasks[call.task_idx].deadline
    /\ ret[1] = 1

----------------------------------------------------------------------------
(* C15 - C17: the driver's decisions, commits and report *)

\* C15: with dependency, volume, deadline and priority registered, a task
\* whose remaining volume is 0 or whose priority is 0 is never the task of a
\* decision next() returns.
C15_ZeroScoreNeverSelected ==
    pc = "decided" =>
        ~(Remaining(ret.task_idx) = 0 \/ tasks[ret.task_idx].priority = 0)

\* task 1 was selected while task 0, first in order, with work left, free
\* time before its deadline and no dependency, has priority 0
C15_Witness ==
    /\ pc = "decided"
    /\ ret.task_idx = 1
    /\ tasks[0].priority = 0
    /\ tasks[0].dependencies = {}
    /\ Remaining(0) > 0
    /\ ~RatIsZero(deadline(0))

\* C16: schedule_task(task, interval) extends the task's latest-ending
\* committed interval to interval.end, adding no entry, when that interval
\* ends exactly at interval.start, and appends the interval otherwise; either
\* way the task's committed hours grow by the interval's hours and no other
\* task's list changes.
C16_ScheduleTaskMergesOrAppends ==
    [][(pc = "decided" /\ pc' = "idle") =>
          LET task_idx == ret.task_idx
              own == inner[task_idx]
          IN  /\ IF own # << >> /\ MaxEnd(own) = ret.interval.start
                 THEN \E k \in 1..Len(own) :
                         /\ own[k].end = MaxEnd(own)
                         /\ inner'[task_idx] = [own EXCEPT ![k].end = ret.interval.end]
                 ELSE inner'[task_idx] = Append(own, ret.interval)
              /\ SumHours(inner'[task_idx]) = SumHours(own) + hours(ret.interval)
              /\ \A u \in DOMAIN inner : u # task_idx => inner'[u] = inner[u]]_vars

\* C17: once the drain has ended, the missed-deadline report lists exactly
\* the tasks whose remaining volume exceeds the tolerance; a task within the
\* tolerance is not listed.
C17_ReportBeyondTolerance ==
    pc = "reported" => ret = {t \in DOMAIN tasks : Remaining(t) > Epsilon}

----------------------------------------------------------------------------
(* C18 - C19: the scenario of tests.rs *)

\* a decision: a task and the hour its one-hour interval starts
Decision(task_idx, start_hour) ==
    [task_idx |-> task_idx, interval |-> from_span(start_hour * Hour, Hour)]

\* the call of next() that has just returned was made with the cursor at this hour
CalledAt(hour) == call.op = "next" /\ call.current_time = hour * Hour

\* C18: with dependency, volume, deadline and priority registered, the first
\* four decisions on the test scheduler are T2 [09:00,10:00),
\* T2 [10:00,11:00), T0 [11:00,12:00) and T2 [12:00,13:00).  Each call of
\* next() is made with the cursor at the end of the decision before it, the
\* first with the cursor at the window's start.
C18_FirstFourDecisions ==
    (pc = "decided" /\ Len(heuristics) = 4) =>
        /\ CalledAt(0) => ret = Decision(2, 9)
        /\ CalledAt(10) => ret = Decision(2, 10)
        /\ CalledAt(11) => ret = Decision(0, 11)
        /\ CalledAt(12) => ret = Decision(2, 12)

\* the fourth decision has been returned and T2's first two hours were merged
C18_Witness ==
    /\ pc = "decided"
    /\ Len(heuristics) = 4
    /\ CalledAt(12)
    /\ ret.task_idx = 2
    /\ inner[2] = <<Interval(9 * Hour, 11 * Hour)>>
    /\ inner[0] = <<Interval(11 * Hour, 12 * Hour)>>

\* C19: the test scheduler as get_test_scheduler builds it (dependency,
\* volume, deadline; no priority), drained, yields the seven one-hour
\* decisions T2 09:00, T2 10:00, T0 11:00, T2 12:00, T3 15:00, T1 16:00,
\* T3 17:00 and then None.
C19_SevenDecisions ==
    heuristics = <<"dependency", "volume", "deadline">> =>
        /\ pc = "decided" =>
              \/ CalledAt(0) /\ ret = Decision(2, 9)
              \/ CalledAt(10) /\ ret = Decision(2, 10)
              \/ CalledAt(11) /\ ret = Decision(0, 11)
              \/ CalledAt(12) /\ ret = Decision(2, 12)
              \/ CalledAt(13) /\ ret = Decision(3, 15)
              \/ CalledAt(16) /\ ret = Decision(1, 16)
              \/ CalledAt(17) /\ ret = Decision(3, 17)
        /\ pc = "done" => CalledAt(18)

----------------------------------------------------------------------------
(* C20: errors of the recurring plan expansion *)

\* a time-range string of exactly two tokens, each a clock time (or a 24:nn end)
WellFormed(time) ==
    /\ Len(time) = 2
    /\ strptime(0, time[1]) # -1
    /\ StartsWith24(time[2]) \/ strptime(0, time[2]) # -1

\* C20: the expansion fails as a whole, with an error and no PlanSet,
\* whenever a rule of the list has a bad recurrence syntax or a time-range
\* string that is not two dash-separated parsable clock times, whatever the
\* window and whether or not the rule matches a day of it.
C20_MalformedConfigFails ==
    (pc = "expanded"
        /\ \E k \in DOMAIN call.value :
              \/ ~call.value[k].syntax_ok
              \/ \E j \in DOMAIN call.value[k].day_plans :
                    ~WellFormed(call.value[k].day_plans[j].time))
        => ret.value = "Err" /\ plans = EmptyMap

----------------------------------------------------------------------------
(* Construction: Scheduler::new on any allocator, task list and window, or    *)
(* Scheduler::try_from on a SchedulerConfig; the heuristics are registered    *)
(* on the new scheduler, then next() and schedule_task() run in turn.         *)

\* most heuristics registered on a constructed scheduler
MaxHeuristics == 2

\* how far before instant 0 a run is followed
MaxRewind == 3

\* the granularity strings of the configurations
GranularityStrings == {"-1s", "0s", "1s", "soon"}

\* granularity.parse::<Span>(): the span in seconds, or Err
ParseSpan(s) ==
    CASE s = "-1s" -> [ok |-> TRUE, span |-> -1]
      [] s = "0s" -> [ok |-> TRUE, span |-> 0]
      [] s = "1s" -> [ok |-> TRUE, span |-> 1]
      [] OTHER -> Err

\* the start and end strings of the configurations, as a day and a clock token
DateTimes == {<<0, "00:00">>, <<0, "12:00">>, <<1, "00:00">>, <<0, "noon">>}

\* the task strings of the configurations, by what Task::try_from reads in
\* them: whether the string parses, the deadline, the priority, the volume
TaskStrings ==
    {[ok |-> TRUE, deadline |-> DayStart(1), priority |-> 1, volume |-> VolRes],
     [ok |-> TRUE, deadline |-> DayStart(2), priority |-> 2, volume |-> 2 * VolRes],
     [ok |-> FALSE, deadline |-> 0, priority |-> 0, volume |-> 0]}

\* Task::try_from(String): a task without dependencies
TaskTryFrom(s) == Task(s.deadline, s.priority, s.volume, {})

\* tasks.push(task)
Push(ts, task) ==
    [t \in 0..Cardinality(DOMAIN ts) |-> IF t \in DOMAIN ts THEN ts[t] ELSE task]

RECURSIVE ChainTryFrom(_, _, _)
\* tasks.rs lines 65-72: the tasks of one chain; each one after the first
\* depends on the task pushed just before it
ChainTryFrom(ts, chain, first) ==
    IF chain = << >> THEN [ok |-> TRUE, tasks |-> ts]
    ELSE IF ~Head(chain).ok THEN Err
    ELSE LET task == TaskTryFrom(Head(chain))
             pushed == IF first THEN task
                       ELSE [task EXCEPT !.dependencies = {Cardinality(DOMAIN ts) - 1}]
         IN  ChainTryFrom(Push(ts, pushed), Tail(chain), FALSE)

RECURSIVE ChainsTryFrom(_, _)
\* tasks.rs lines 63-73: the chains in order
ChainsTryFrom(ts, value) ==
    IF value = << >> THEN [ok |-> TRUE, tasks |-> ts]
    ELSE LET r == ChainTryFrom(ts, Head(value), TRUE)
         IN  IF r.ok THEN ChainsTryFrom(r.tasks, Tail(value)) ELSE Err

\* Tasks::try_from(Vec<Vec<String>>)
TasksTryFrom(value) == ChainsTryFrom(NoTasks, value)

\* the task chains of the configurations: no task, one task, two tasks apart
\* or in one chain, a task string that does not parse
TaskChains ==
    LET a == CHOOSE s \in TaskStrings : s.ok /\ s.priority = 1
        b == CHOOSE s \in TaskStrings : s.ok /\ s.priority = 2
        bad == CHOOSE s \in TaskStrings : ~s.ok
    IN  {<< >>, <<<<a>>>>, <<<<a>>, <<b>>>>, <<<<a, b>>>>, <<<<a, bad>>>>}

\* the plans of the configurations: none, one rule, one rule of bad syntax
ConfigPlans ==
    {<< >>, <<Rule(TRUE, {0}, <<"00:00", "12:00">>, "sleep")>>,
     <<Rule(FALSE, {}, <<"00:00", "12:00">>, "sleep")>>}

\* SchedulerConfig
SchedulerConfigs ==
    [tasks : TaskChains, plans : ConfigPlans, granularity : GranularityStrings,
     start : DateTimes, end : DateTimes]

\* Scheduler::new(allocator, tasks, interval): the fields of the new scheduler
SchedulerNew(allocator, ts, window) ==
    [ok |-> TRUE,
     inner |-> [t \in DOMAIN ts |-> << >>],
     tasks |-> ts,
     allocator |-> allocator,
     current_time |-> window.start,
     interval |-> window,
     heuristics |-> << >>]

\* Scheduler::try_from(SchedulerConfig): the scheduler, or Err when a string
\* of the configuration does not parse
SchedulerTryFrom(value) ==
    LET start == strptime(value.start[1], value.start[2])
        end == strptime(value.end[1], value.end[2])
    IN  IF start = -1 \/ end = -1 THEN Err
        ELSE LET window == Interval(start, end)
                 parsed == ParseSpan(value.granularity)
             IN  IF ~parsed.ok THEN Err
                 ELSE LET p == PlansTryFrom(window, value.plans)
                      IN  IF ~p.ok THEN Err
                          ELSE LET ts == TasksTryFrom(value.tasks)
                               IN  IF ~ts.ok THEN Err
                                   ELSE SchedulerNew([granularity |-> parsed.span,
                                                      plans |-> p.plans],
                                                     ts.tasks, window)

\* the task lists handed to Scheduler::new: one or two tasks, each with no
\* dependency or one dependency index, in the list or past its end
NewTaskLists ==
    {[t \in 0..(n - 1) |-> Task(DayStart(1), 1, VolRes, deps[t])] :
        n \in {1, 2}, deps \in [TaskIds -> {{}, {0}, {1}, {2}}]}

\* the allocators handed to Scheduler::new
NewAllocators ==
    [granularity : -1..1, plans : {EmptyMap, [k \in {Interval(0, 1)} |-> "sleep"]}]

\* the windows handed to Scheduler::new
NewWindows == {Interval(s, e) : s \in 0..DayStart(1), e \in 0..DayStart(1)}

InitConstruct ==
    /\ plans = EmptyMap
    /\ granularity = 1
    /\ tasks = NoTasks
    /\ interval = Interval(0, 0)
    /\ heuristics = << >>
    /\ current_time = 0
    /\ inner = NoTasks
    /\ pc = "config"
    /\ ret = NoValue
    /\ call = NoCall
    /\ calls = 0

\* the caller takes the scheduler a constructor returned
Constructed(s) ==
    /\ plans' = s.allocator.plans
    /\ granularity' = s.allocator.granularity
    /\ tasks' = s.tasks
    /\ interval' = s.interval
    /\ heuristics' = s.heuristics
    /\ current_time' = s.current_time
    /\ inner' = s.inner
    /\ pc' = "idle"
    /\ ret' = [value |-> "Ok"]

\* Scheduler::new
New ==
    /\ pc = "config"
    /\ \E allocator \in NewAllocators : \E ts \in NewTaskLists : \E window \in NewWindows :
          Constructed(SchedulerNew(allocator, ts, window))
    /\ call' = [op |-> "new"]
    /\ UNCHANGED calls

\* Scheduler::try_from: Ok with the scheduler, or Err and no scheduler
TryFromConfig ==
    /\ pc = "config"
    /\ \E value \in SchedulerConfigs :
          LET r == SchedulerTryFrom(value)
          IN  /\ IF r.ok THEN Constructed(r)
                 ELSE /\ pc' = "rejected"
                      /\ ret' = [value |-> "Err"]
                      /\ UNCHANGED <<plans, granularity, tasks, interval, heuristics,
                                     current_time, inner>>
              /\ call' = [op |-> "try_from", value |-> value]
    /\ UNCHANGED calls

\* Scheduler::add_heuristic, on a scheduler that has not run yet
AddHeuristic ==
    /\ pc = "idle"
    /\ call.op \in {"new", "try_from", "add_heuristic"}
    /\ Len(heuristics) < MaxHeuristics
    /\ \E h \in {"dependency", "volume"} :
          /\ \A k \in DOMAIN heuristics : heuristics[k] # h
          /\ heuristics' = Append(heuristics, h)
    /\ call' = [op |-> "add_heuristic"]
    /\ UNCHANGED <<plans, granularity, tasks, interval, current_time, inner, pc, ret,
                   calls>>

\* a registered dependency heuristic indexes the task list with a dependency
\* index past its end (heuristics.rs line 11): next() panics in its scoring
DependencyPanics ==
    /\ current_time < interval.end
    /\ \E k \in DOMAIN heuristics : heuristics[k] = "dependency"
    /\ \E t \in DOMAIN tasks : \E dependency_idx \in tasks[t].dependencies :
          dependency_idx \notin DOMAIN tasks

\* next() panics
NextPanics ==
    /\ pc = "idle"
    /\ DependencyPanics
    /\ pc' = "panicked"
    /\ call' = [op |-> "next", current_time |-> current_time]
    /\ UNCHANGED <<plans, granularity, tasks, interval, heuristics, current_time, inner,
                   ret, calls>>

\* next() and schedule_task() on the constructed scheduler, while the cursor
\* is less than MaxRewind before instant 0 (a negative granularity moves it
\* back without end)
Run ==
    /\ pc \in {"idle", "decided"}
    /\ current_time > -MaxRewind
    /\ ~DependencyPanics
    /\ Next

NextConstruct == New \/ TryFromConfig \/ AddHeuristic \/ NextPanics \/ Run

SpecConstruct == InitConstruct /\ [][NextConstruct]_vars

\* C21: no scheduler is constructed, and no scheduling step runs, with a
\* granularity that is not positive or a window whose start is not before
\* its end.
C21_ConstructionValidates ==
    pc \in {"idle", "decided", "done", "panicked"}
        => granularity > 0 /\ interval.start < interval.end

\* C22: no scheduler is constructed from a task list in which a dependency
\* index is not the index of a task of the list, so the dependency heuristic
\* never indexes the task list out of range.
C22_DependencyIndicesValidated ==
    /\ pc \in {"idle", "decided", "done"}
          => \A t \in DOMAIN tasks : tasks[t].dependencies \subseteq DOMAIN tasks
    /\ pc # "panicked"

----------------------------------------------------------------------------
(* Scheduler::schedule against the test loop of tests.rs: schedule() runs on  *)
(* a scheduler until next() returns None, one iteration of its loop at a    *)
(* time (the loop need not end); then the same scheduler is built again and   *)
(* driven one next() and one schedule_task() at a time, the caller logging    *)
(* each decision in between.                                                  *)

\* most decisions followed in one run
MaxDecisions == 6

\* lines 133-135, with the body dropping the interval next() returned
ScheduleLoopBody_DropsInterval ==
    LET task_idx == SelectedTask
        i == allocate(task_idx)
    IN  [current_time |-> i.end,
         inner |-> inner,
         decision |-> [task_idx |-> task_idx, interval |-> i]]

\* lines 133-135: one iteration of the loop of schedule(); next() moves the
\* cursor and schedule_task() commits what it returned
ScheduleLoopBody ==
    LET task_idx == SelectedTask
        i == allocate(task_idx)
    IN  [current_time |-> i.end,
         inner |-> schedule_task(task_idx, i),
         decision |-> [task_idx |-> task_idx, interval |-> i]]

InitEquiv ==
    /\ plans \in DriverPlanSets
    /\ granularity \in 1..MaxGranularity
    /\ interval = Interval(0, MaxTime)
    /\ \E vol \in [TaskIds -> 0..MaxDriverVolume] :
       \E deps \in Dependencies :
          tasks = [t \in TaskIds |-> Task(MaxTime + 1, 1, vol[t] * VolumeStep, deps[t])]
    /\ heuristics \in HeuristicLists
    /\ inner = [t \in DOMAIN tasks |-> << >>]
    /\ current_time = interval.start
    /\ pc = "schedule"
    /\ ret = NoValue
    /\ call = [op |-> "new", decisions |-> << >>, drained |-> [done |-> FALSE]]
    /\ calls = 0

\* schedule(): next() returns Some and the loop body runs
ScheduleIteration ==
    /\ pc = "schedule"
    /\ ~NextIsNone
    /\ Len(call.decisions) < MaxDecisions
    /\ LET body == ScheduleLoopBody
       IN  /\ current_time' = body.current_time
           /\ inner' = body.inner
           /\ call' = [call EXCEPT !.op = "schedule",
                                   !.decisions = Append(@, body.decision)]
    /\ UNCHANGED <<plans, granularity, tasks, interval, heuristics, pc, ret, calls>>

\* schedule(): next() returns None and schedule() returns
ScheduleReturns ==
    /\ pc = "schedule"
    /\ NextIsNone
    /\ pc' = "drained"
    /\ call' = [op |-> "schedule", decisions |-> << >>,
                drained |-> [done |-> TRUE, current_time |-> current_time,
                             inner |-> inner, decisions |-> call.decisions]]
    /\ UNCHANGED <<plans, granularity, tasks, interval, heuristics, current_time, inner,
                   ret, calls>>

\* the same scheduler is built again
Rebuild ==
    /\ pc = "drained"
    /\ inner' = [t \in DOMAIN tasks |-> << >>]
    /\ current_time' = interval.start
    /\ pc' = "idle"
    /\ call' = [call EXCEPT !.op = "new"]
    /\ UNCHANGED <<plans, granularity, tasks, interval, heuristics, ret, calls>>

\* tests.rs lines 88-90: next() returns Some and the caller logs the decision
StepNextSome ==
    /\ pc = "idle"
    /\ ~NextIsNone
    /\ Len(call.decisions) < MaxDecisions
    /\ LET task_idx == SelectedTask
           i == allocate(task_idx)
       IN  /\ current_time' = i.end
           /\ ret' = [task_idx |-> task_idx, interval |-> i]
           /\ call' = [call EXCEPT !.op = "next", !.decisions = Append(@, ret')]
    /\ pc' = "decided"
    /\ UNCHANGED <<plans, granularity, tasks, interval, heuristics, inner, calls>>

\* tests.rs line 91: schedule_task on the decision next() returned
StepScheduleTask ==
    /\ pc = "decided"
    /\ inner' = schedule_task(ret.task_idx, ret.interval)
    /\ pc' = "idle"
    /\ call' = [call EXCEPT !.op = "schedule_task"]
    /\ UNCHANGED <<plans, granularity, tasks, interval, heuristics, current_time, ret,
                   calls>>

\* tests.rs line 88: next() returns None and the loop ends
StepNextNone ==
    /\ pc = "idle"
    /\ NextIsNone
    /\ ret' = None
    /\ pc' = "done"
    /\ call' = [call EXCEPT !.op = "next"]
    /\ UNCHANGED <<plans, granularity, tasks, interval, heuristics, current_time, inner,
                   calls>>

NextEquiv ==
    \/ ScheduleIteration
    \/ ScheduleReturns
    \/ Rebuild
    \/ StepNextSome
    \/ StepScheduleTask
    \/ StepNextNone

SpecEquiv == InitEquiv /\ [][NextEquiv]_vars

\* C23: from the same initial scheduler, schedule() and the loop of next()
\* and schedule_task() on what next() returned make the same decisions in
\* the same order and end with the same committed lists and the same cursor.
C23_ScheduleEqualsStepwise ==
    /\ pc \in {"idle", "decided", "done"}
          => /\ Len(call.decisions) <= Len(call.drained.decisions)
             /\ call.decisions = SubSeq(call.drained.decisions, 1, Len(call.decisions))
    /\ pc = "done"
          => /\ call.decisions = call.drained.decisions
             /\ inner = call.drained.inner
             /\ current_time = call.drained.current_time

\* both runs ended after two decisions or more, with work committed to both tasks
C23_Witness ==
    /\ pc = "done"
    /\ Len(call.decisions) >= 2
    /\ \A t \in DOMAIN inner : inner[t] # << >>

----------------------------------------------------------------------------
(* C24: the order of the rules in the recurring plan expansion *)

\* the intervals one rule produces: its time range on each matched day
Produced(window, rule) ==
    {Interval(strptime(day, rule.day_plans[1].time[1]),
              IF StartsWith24(rule.day_plans[1].time[2]) THEN DayStart(day + 1)
              ELSE strptime(day, rule.day_plans[1].time[2])) :
        day \in {day \in rule.days : /\ DayStart(day) >= DayStart(window.start \div DaySpan)
                                     /\ DayStart(day) < window.end}}

\* the instants of the two days
ExpandTimes == DayStart(0)..DayStart(2)

\* C24: the rules are applied in input order: at every instant that intervals
\* of both rules of a two-rule list cover, the PlanSet carries the description
\* of the rule declared later, and at every instant that only intervals of
\* the earlier rule cover, the description of the earlier rule.
C24_LaterRuleOverrides ==
    (pc = "expanded" /\ ret.value = "Ok" /\ Len(call.value) = 2)
        => LET earlier == Produced(interval, call.value[1])
               later == Produced(interval, call.value[2])
           IN  \A t \in ExpandTimes :
                  /\ (\E i \in later : i.start <= t /\ t < i.end)
                        => DescriptionsAt(plans, t) = {call.value[2].day_plans[1].description}
                  /\ ((\E i \in earlier : i.start <= t /\ t < i.end)
                         /\ ~(\E i \in later : i.start <= t /\ t < i.end))
                        => DescriptionsAt(plans, t) = {call.value[1].day_plans[1].description}

\* a two-rule list whose intervals overlap on part of the earlier rule's
\* interval, the rules carrying different descriptions
C24_Witness ==
    /\ pc = "expanded"
    /\ ret.value = "Ok"
    /\ Len(call.value) = 2
    /\ call.value[1].day_plans[1].description # call.value[2].day_plans[1].description
    /\ \E a \in Produced(interval, call.value[1]) :
       \E b \in Produced(interval, call.value[2]) :
          /\ intercepts(a, b)
          /\ \E t \in ExpandTimes : a.start <= t /\ t < a.end /\ ~(b.start <= t /\ t < b.end)

----------------------------------------------------------------------------
(* C25..C26: the interval allocate() returns *)

\* C25: allocate() never returns an interval whose end is before its start,
\* whatever the cursor, the plan set and the task, a task with no remaining
\* hours or with more committed than its volume included.
C25_AllocateNeverNegative ==
    pc = "allocated" => ret.start <= ret.end

\* the earliest instant at or after c that no plan entry covers
FreeFrom(c) ==
    CHOOSE s \in c..(MaxTime + 1) :
        /\ Covering(plans, s) = {}
        /\ \A t \in c..(s - 1) : Covering(plans, t) # {}

\* the least number of a non-empty set
Min(S) == CHOOSE x \in S : \A y \in S : x <= y

\* the end the allocation is to have from its start s, in work units: the
\* start plus the smaller of the granularity and the remaining work, cut at
\* the first plan entry that begins after s and at the window's end
EndFrom(s, task_idx) ==
    Min({s * VolRes + Min({granularity * VolRes, Remaining(task_idx)}),
         interval.end * VolRes}
        \cup {k.start * VolRes : k \in {p \in DOMAIN plans : p.start > s}})

\* C26: on a pairwise non-intersecting plan set and a task with remaining
\* hours r > 0, allocate() at cursor c returns [s, e) with s the earliest
\* instant >= c that no plan entry covers and e the least of s + min(granularity,
\* r), the start of the first plan entry beginning after s, and the window's end.
C26_AllocateExact ==
    (pc = "allocated" /\ NonIntersecting(plans) /\ Remaining(call.task_idx) > 0)
        => /\ ret.start = FreeFrom(current_time)
           /\ ret.end * VolRes = EndFrom(FreeFrom(current_time), call.task_idx)

----------------------------------------------------------------------------
(* C27: the deadline heuristic and the free time before the deadline *)

\* the instants of [current_time, deadline) that no plan entry covers
FreeBefore(task_idx) ==
    {t \in current_time..(tasks[task_idx].deadline - 1) : Covering(plans, t) = {}}

\* C27: the deadline heuristic returns 0.0 exactly when no time free of plan
\* entries is left in [current_time, deadline), the deadline passed included;
\* whenever part of [current_time, deadline) is covered by no plan entry the
\* score is positive.
C27_DeadlineZeroIffNoFreeTime ==
    (call.op = "heuristic" /\ call.heuristic = "deadline") =>
        /\ ret = <<0, 1>> <=> FreeBefore(call.task_idx) = {}
        /\ FreeBefore(call.task_idx) # {} => ret[1] > 0

----------------------------------------------------------------------------
(* C28: the intervals the recurring plan expansion inserts *)

\* C28: every entry the recurring plan expansion puts into the PlanSet has
\* start <= end; a time range whose end clock time is before its start clock
\* time never becomes an entry with start > end.
C28_ExpandedIntervalsOrdered ==
    (pc = "expanded" /\ ret.value = "Ok") => \A k \in DOMAIN plans : k.start <= k.end

----------------------------------------------------------------------------
(* next() called again after it has returned None: the driver, and one more   *)
(* next() on the scheduler it left.                                           *)

\* next() that also moves the cursor to the window's end when it returns None
next_ParksCursor ==
    IF NextIsNone
    THEN [ret |-> None, current_time |-> interval.end, pc |-> "done"]
    ELSE LET task_idx == SelectedTask
             i == allocate(task_idx)
         IN  [ret |-> [task_idx |-> task_idx, interval |-> i], current_time |-> i.end,
              pc |-> "decided"]

\* Scheduler::next: what it returns and where it leaves the cursor
next ==
    IF NextIsNone
    THEN [ret |-> None, current_time |-> current_time, pc |-> "done"]
    ELSE LET task_idx == SelectedTask
             i == allocate(task_idx)
         IN  [ret |-> [task_idx |-> task_idx, interval |-> i], current_time |-> i.end,
              pc |-> "decided"]

\* the driver with every priority 1.0
InitAgain ==
    /\ Init
    /\ \A t \in DOMAIN tasks : tasks[t].priority = 1

\* next() on a scheduler whose last next() returned None
NextAgain ==
    /\ pc = "done"
    /\ LET r == next
       IN  /\ ret' = r.ret
           /\ current_time' = r.current_time
           /\ pc' = r.pc
    /\ call' = [op |-> "next_again", current_time |-> current_time]
    /\ UNCHANGED <<plans, granularity, tasks, interval, heuristics, inner, calls>>

NextAfterNone == Next \/ NextAgain

SpecAgain == InitAgain /\ [][NextAfterNone]_vars

\* C29: once next() has returned None every later next() returns None, and a
\* next() that returns None leaves the cursor and every committed list as
\* they were.
C29_NoneIsAbsorbing ==
    [][/\ pc = "done" => pc' = "done" /\ ret' = None
       /\ (call'.op \in {"next", "next_again"} /\ ret' = None)
             => current_time' = current_time /\ inner' = inner]_vars

\* next() returned None a second time, before the window's end and with work
\* committed
C29_Witness ==
    /\ pc = "done"
    /\ call.op = "next_again"
    /\ ret = None
    /\ current_time < interval.end
    /\ \E t \in DOMAIN inner : inner[t] # << >>

----------------------------------------------------------------------------
(* C30: what next() and schedule_task() leave alone *)

\* C30: no next() or schedule_task() call changes the task list, the
\* PlanSet, the granularity, the window or the registered heuristics; next()
\* changes no committed list, and schedule_task() changes neither the cursor
\* nor the committed list of any task but the one it is given.
C30_Frame ==
    [][/\ tasks' = tasks /\ plans' = plans /\ granularity' = granularity
       /\ interval' = interval /\ heuristics' = heuristics
       /\ DOMAIN inner' = DOMAIN inner
       /\ call'.op = "next" => inner' = inner
       /\ call'.op = "schedule_task"
             => /\ current_time' = current_time
                /\ \A t \in DOMAIN inner : t # ret.task_idx => inner'[t] = inner[t]]_vars

\* schedule_task() has committed to one task an interval that starts where
\* the other task's latest interval ends, and next() has moved the cursor
C30_Witness ==
    /\ pc = "idle"
    /\ call.op = "schedule_task"
    /\ current_time > interval.start
    /\ \E t \in DOMAIN inner : \E u \in DOMAIN inner :
          /\ t # u
          /\ t = ret.task_idx
          /\ EndsAt(u, ret.interval)
          /\ inner[t] # << >>

----------------------------------------------------------------------------
(* C31: the locality heuristic *)

\* the latest end among all committed intervals
LatestEnd ==
    LET ends == {MaxEnd(inner[t]) : t \in {u \in DOMAIN inner : inner[u] # << >>}}
    IN  CHOOSE e \in ends : \A f \in ends : f <= e

\* the tasks that own a committed interval with the latest end
Owners == {t \in DOMAIN inner : inner[t] # << >> /\ MaxEnd(inner[t]) = LatestEnd}

\* C31: the locality heuristic returns 1.0 for every task while nothing is
\* committed; otherwise 2.0 for the task that owns the committed interval with
\* the latest end among all committed intervals and 1.0 for every other task
\* (of several tasks whose latest intervals end together, the one of the
\* highest index is that task).
C31_LocalityHeuristic ==
    (call.op = "heuristic" /\ call.heuristic = "locality") =>
        IF \A t \in DOMAIN inner : inner[t] = << >> THEN ret = <<1, 1>>
        ELSE /\ call.task_idx \notin Owners => ret = <<1, 1>>
             /\ Owners = {call.task_idx} => ret = <<2, 1>>
             /\ ret = <<2, 1>> <=> (call.task_idx \in Owners
                                     /\ \A u \in Owners : u <= call.task_idx)

\* the task scored 2.0 owns the latest end alone, it is not the task of the
\* highest index, and another task has committed intervals too
C31_Witness ==
    /\ call.op = "heuristic"
    /\ call.heuristic = "locality"
    /\ ret = <<2, 1>>
    /\ Owners = {call.task_idx}
    /\ \E u \in DOMAIN inner : u > call.task_idx /\ inner[u] # << >>

----------------------------------------------------------------------------
(* C32..C34: the decisions of a driver run *)

\* the committed intervals, each with its task and its place in the list
Committed == UNION {{<<t, k>> : k \in DOMAIN inner[t]} : t \in DOMAIN inner}

\* C32: in every state of a driver run no two committed intervals, of the
\* same task or of different tasks, intersect, and the interval of each
\* decision starts at or after the cursor next() was called at and at or
\* after the end of every interval committed before it.
C32_OneTimeline ==
    /\ \A a \in Committed : \A b \in Committed :
          a # b => ~intercepts(inner[a[1]][a[2]], inner[b[1]][b[2]])
    /\ pc = "decided"
          => /\ ret.interval.start >= call.current_time
             /\ \A a \in Committed : inner[a[1]][a[2]].end <= ret.interval.start

\* a decision whose interval was moved past a plan entry, after intervals
\* were committed to both tasks
C32_Witness ==
    /\ pc = "decided"
    /\ ret.interval.start > call.current_time
    /\ ret.interval.end > ret.interval.start
    /\ \A t \in DOMAIN inner : inner[t] # << >>

\* C33: in a driver run with the dependency heuristic registered, whenever
\* next() returns a decision for a task at cursor c, every dependency of the
\* task has its deadline at or before c or has no remaining volume beyond
\* the tolerance.
C33_DependenciesRespected ==
    (pc = "decided" /\ \E k \in DOMAIN heuristics : heuristics[k] = "dependency")
        => \A d \in tasks[ret.task_idx].dependencies :
              \/ tasks[d].deadline <= call.current_time
              \/ Remaining(d) <= Epsilon

\* a decision for a task whose dependency was finished by committed work
\* before the dependency's deadline
C33_Witness ==
    /\ pc = "decided"
    /\ \E d \in tasks[ret.task_idx].dependencies :
          /\ tasks[d].deadline > call.current_time
          /\ inner[d] # << >>
          /\ Remaining(d) <= Epsilon
    /\ ret.interval.end > ret.interval.start

\* C34: in a driver run with the deadline heuristic registered and a pairwise
\* non-intersecting plan set, every interval next() returns for a task starts
\* strictly before the task's deadline, also when allocate() moved the start
\* forward past plan entries.
C34_StartsBeforeDeadline ==
    (pc = "decided" /\ NonIntersecting(plans)
        /\ \E k \in DOMAIN heuristics : heuristics[k] = "deadline")
        => ret.interval.start < tasks[ret.task_idx].deadline

\* a decision moved past a plan entry that covers the cursor, for a task
\* whose deadline is inside the window
C34_Witness ==
    /\ pc = "decided"
    /\ \E p \in DOMAIN plans : p.start <= call.current_time /\ ret.interval.start = p.end
    /\ ret.interval.start > call.current_time
    /\ tasks[ret.task_idx].deadline < interval.end

----------------------------------------------------------------------------
(* C35: cyclic dependencies *)

RECURSIVE DependenciesWithin(_, _)
\* the tasks reached from a set of tasks along at most n dependency links
DependenciesWithin(S, n) ==
    IF n = 0 THEN S
    ELSE DependenciesWithin(
             S \cup UNION {tasks[t].dependencies \cap DOMAIN tasks : t \in S}, n - 1)

\* some task depends on itself, directly or through other tasks
Cyclic ==
    \E t \in DOMAIN tasks :
        t \in DependenciesWithin(tasks[t].dependencies \cap DOMAIN tasks, NumTasks)

\* C35: a task list whose dependency relation has a cycle is rejected when
\* the scheduler is constructed; no scheduler holds such a list and next()
\* never runs on one.
C35_CyclesRejected ==
    pc \in {"idle", "decided", "done", "panicked"} => ~Cyclic

----------------------------------------------------------------------------
(* The legacy algorithm of main.rs.  Instants are whole seconds counted from  *)
(* an arbitrary origin, durations whole seconds.  A ScheduleAlgorithm is a    *)
(* plain struct: any field values can be given.                               *)

MaxInstant == 4
MaxCritical == 2

\* main.rs Task, reduced to the field get_critical_intervals reads
LegacyTasks == {[deadline |-> d] : d \in 0..MaxInstant}

\* TaskChain: no task, one task, or two tasks with ascending deadlines
TaskChainLists ==
    {<< >>} \cup {<<t>> : t \in LegacyTasks}
            \cup {c \in LegacyTasks \X LegacyTasks : c[1].deadline < c[2].deadline}

\* ScheduleAlgorithm { start, task_chains, idle_intervals, max_critical_interval }
ScheduleAlgorithms ==
    {[start |-> s, task_chains |-> <<c>>, idle_intervals |-> idle, max_critical_interval |-> m] :
        s \in 0..2, c \in TaskChainLists,
        idle \in {<< >>} \cup {<<Interval(a, a + d)>> : a \in 0..(MaxInstant - 1), d \in 1..2},
        m \in 0..MaxCritical}

RECURSIVE Ascending(_)
\* the iteration order of a BTreeSet<Instant>
Ascending(S) ==
    IF S = {} THEN << >>
    ELSE LET p == CHOOSE x \in S : \A y \in S : x <= y
         IN  <<p>> \o Ascending(S \ {p})

\* Instant - Instant: duration_since, which saturates at zero
DurationSince(point, earlier) == IF point >= earlier THEN point - earlier ELSE 0

\* the critical points before the long intervals are divided
CriticalPoints(algorithm) ==
    {algorithm.task_chains[c][t].deadline :
        <<c, t>> \in UNION {{<<c, t>> : t \in DOMAIN algorithm.task_chains[c]} :
                               c \in DOMAIN algorithm.task_chains}}
    \cup {algorithm.idle_intervals[i].start : i \in DOMAIN algorithm.idle_intervals}
    \cup {algorithm.idle_intervals[i].end : i \in DOMAIN algorithm.idle_intervals}
    \cup {algorithm.start}

RECURSIVE Divide(_, _, _, _)
\* the loop of get_critical_intervals: between curr and each later point, a
\* point every max_critical_interval
Divide(points, rest, curr, max_critical_interval) ==
    IF rest = << >> THEN points
    ELSE LET point == Head(rest)
             max_critical_interval_ratio ==
                 DurationSince(point, curr) \div max_critical_interval
         IN  Divide(
                 points \cup {curr + i * max_critical_interval :
                                 i \in 1..max_critical_interval_ratio},
                 Tail(rest), point, max_critical_interval)

\* ScheduleAlgorithm::get_critical_intervals: the list, or a panic on the
\* division by a max_critical_interval of no whole second
get_critical_intervals(algorithm) ==
    LET critical_points == CriticalPoints(algorithm)
        later == Tail(Ascending(critical_points))
    IN  IF later # << >> /\ algorithm.max_critical_interval = 0
        THEN [value |-> "panic"]
        ELSE LET all == Ascending(Divide(critical_points, later, algorithm.start,
                                         algorithm.max_critical_interval))
             IN  [value |-> "Ok",
                  intervals |-> [k \in 1..(Len(all) - 1) |-> Interval(all[k], all[k + 1])]]

InitLegacy ==
    /\ plans = EmptyMap
    /\ granularity = 1
    /\ tasks = NoTasks
    /\ interval = Interval(0, MaxInstant)
    /\ heuristics = << >>
    /\ current_time = 0
    /\ inner = NoTasks
    /\ pc = "legacy"
    /\ ret = NoValue
    /\ \E algorithm \in ScheduleAlgorithms :
          call = [op |-> "ScheduleAlgorithm", algorithm |-> algorithm]
    /\ calls = 0

\* algorithm.get_critical_intervals()
GetCriticalIntervals ==
    /\ pc = "legacy"
    /\ ret' = get_critical_intervals(call.algorithm)
    /\ call' = [call EXCEPT !.op = "get_critical_intervals"]
    /\ pc' = "returned"
    /\ calls' = calls + 1
    /\ UNCHANGED <<plans, granularity, tasks, interval, heuristics, current_time, inner>>

NextLegacy == GetCriticalIntervals

SpecLegacy == InitLegacy /\ [][NextLegacy]_vars

\* the list is contiguous, begins at start, has every point as a boundary and
\* no interval longer than max_critical_interval
WellDivided(algorithm, list) ==
    /\ \A k \in 1..(Len(list) - 1) : list[k + 1].start = list[k].end
    /\ list # << >> =>
          /\ list[1].start = algorithm.start
          /\ \A p \in CriticalPoints(algorithm) :
                \E k \in DOMAIN list : list[k].start = p \/ list[k].end = p
    /\ \A k \in DOMAIN list : list[k].end - list[k].start <= algorithm.max_critical_interval

CriticalIntervalsFromStart ==
    (/\ call.op = "get_critical_intervals"
     /\ call.algorithm.max_critical_interval >= 1
     /\ \A p \in CriticalPoints(call.algorithm) : call.algorithm.start <= p) =>
        /\ ret.value = "Ok"
        /\ WellDivided(call.algorithm, ret.intervals)

====
